---- MODULE Spec2Model ----
(***************************************************************************)
(* The interceptor pipeline of axiosService.ts (src/unnamed/part_001):     *)
(*   - BaseAxiosService: error classification and retryRequest;            *)
(*   - CreateAxiosService: the standard client, with the basic response    *)
(*     interceptor (onRejected) or the auth one (onAuthReject);            *)
(*   - AdminCreateAxiosService: the administrative client.                 *)
(* One action is one event-loop task: a call, the arrival of a response,   *)
(* the firing of a timer, with every handler it runs to completion (up to  *)
(* the handler's next await).                                              *)
(***************************************************************************)
EXTENDS Integers, Sequences, FiniteSets, TLC

\* ------------------------------------------------------------- bounds
NReq == 3          \* requests the callers issue on one standard client
MaxFailures == 4   \* error responses the transport delivers to the basic client
MaxAuthFailures == 3  \* error responses the transport delivers to the auth client
NAdminReq == 3     \* calls in flight on the administrative client per page
MaxTimers == 3     \* redirect timers armed on one page
NMsgReq == 2       \* calls that register messages on the administrative client
MaxRemoveCalls == 3 \* calls of removeAuthRequestInterceptor
NQueueReq == 4     \* requests issued on the auth client that answers 401 only
MaxQueueFailures == 4  \* 401 responses delivered to that client
MaxStatus == 600   \* the classifiers are applied to -MaxStatus..MaxStatus and undefined

\* The requests of a standard client; the callers of the general
\* specifications issue the first NReq of them.
Req == 1..NQueueReq
Callers == 1..NReq
AdminReq == 1..NAdminReq
MsgReq == 1..NMsgReq

\* ------------------------------------------------- BaseAxiosService
DEFAULT_RETRY_COUNT == 3
DEFAULT_RETRY_DELAY == 10 * 1000
SERVER_ERROR == 500
UN_AUTHORIZED == 401

\* A value that may be undefined: <<>> is undefined, <<n>> is the number n.
Undefined == <<>>
Some(n) == <<n>>

isUndefined(value) == value = Undefined

isErrorFromServer(statusCode) ==
  IF isUndefined(statusCode) THEN TRUE ELSE statusCode[1] >= SERVER_ERROR

\* !error.config || !error.response || !error.response.status
isErrorFromRequest(error) ==
  \/ ~error.config
  \/ ~error.response
  \/ isUndefined(error.status)
  \/ error.status[1] = 0

isUnexpectedError(statusCode) ==
  IF isUndefined(statusCode) THEN TRUE
  ELSE statusCode[1] < SERVER_ERROR /\ statusCode[1] # UN_AUTHORIZED

\* The AxiosError the transport raises for an HTTP response of status s, and
\* the one it raises when no response was received (network failure).
\* error.status is the status of error.response, as AxiosError sets it.
HttpError(s) == [config |-> TRUE, response |-> TRUE, status |-> Some(s)]
NetworkError == [config |-> TRUE, response |-> FALSE, status |-> Undefined]

ErrorStatuses == {401, 404, 500}
TransportErrors == {HttpError(s) : s \in ErrorStatuses} \cup {NetworkError}

\* What the history of a request records for an error: its status, 0 for none.
StatusOf(error) == IF isUndefined(error.status) THEN 0 ELSE error.status[1]

VARIABLES
  \* ---- standard client (CreateAxiosService), per request of the caller
  phase,       \* "idle" | "inflight" | "delay" | "queued" | "refresh" | "fulfilled" | "rejected"
  stack,       \* the suspended retryRequest chains: frames [count, response]
  received,    \* the statuses the transport answered this request with, in order
  resends,     \* the resends retryRequest made of this request
  result,      \* what the caller's promise settled with
  failures,    \* error responses delivered so far
  \* ---- CreateAxiosService fields and the page
  isApiRequestAuthLocked,
  apiRequestMicrotaskQueueItem,
  effects,     \* the forced-logout side effects, in order
  refreshFailed, \* token-refresh requests that were rejected
  pageAlive,   \* FALSE once the reload has unloaded the page
  \* ---- administrative client (AdminStore / AdminCreateAxiosService)
  isRedirectingBy401Unauthorized,
  sessionUnauthorized,  \* sessionStorage[apiConstants.UNAUTHORIZED]
  redirectTimeout,      \* the timer handle: Undefined (null) or Some(id)
  timers,               \* the redirect timers pending: records [id, delay]
  timerSeq,             \* timer ids handed out on this page
  cancelled,            \* pending timers clearTimeout cancelled on this page
  pathname,             \* window.location.pathname
  navigating,           \* window.location.href was assigned, page not yet replaced
  adminPhase,           \* "idle" | "inflight" | "fulfilled" | "rejected"
  adminUrl,             \* the url of the call
  adminSent,            \* the call reached the transport
  adminFlagAtCall,      \* the in-memory flag when the request interceptor ran
  adminStatus,          \* the status of the response the call received, 0 for none
  adminBranch,          \* the branch the response error handler took, "none" before
  messageOption,        \* AdminStore.messageOption: [successMessage, errorMessage]
  adminOption,          \* the message option the call was registered with
  adminNotes,           \* the notifications emitted when the call's response arrived
  statusCode,           \* the status a caller of the classifiers passes in
  fromServer,           \* what isErrorFromServer returned for it, undefined before
  unexpected,           \* what isUnexpectedError returned for it, undefined before
  authRequestInterceptorId, \* the id use() returned, undefined for null
  handlers,             \* interceptors.request.handlers: the token each one writes
  authorization,        \* config.headers.Authorization of the request as last sent
  issued,               \* refresh responses with data so far: the n-th carries token n
  replayed,             \* the queued requests sent again, in the order of the sends
  enqueued,             \* the requests pushed on the queue, in the order of the pushes
  removeCalls           \* calls of removeAuthRequestInterceptor so far

tokenVars == <<authRequestInterceptorId, handlers, authorization, issued, replayed,
               enqueued, removeCalls>>
stdVars == <<phase, stack, received, resends, result, failures,
             isApiRequestAuthLocked, apiRequestMicrotaskQueueItem, effects,
             refreshFailed, pageAlive, tokenVars>>
adminVars == <<isRedirectingBy401Unauthorized, sessionUnauthorized, redirectTimeout,
               timers, timerSeq, cancelled, pathname, navigating, adminPhase,
               adminUrl, adminSent, adminFlagAtCall, adminStatus, adminBranch,
               messageOption, adminOption, adminNotes>>
classifyVars == <<statusCode, fromServer, unexpected>>
vars == <<stdVars, adminVars, classifyVars>>


\* ------------------------------------------------ promise settlement
\* The promise of a request is what its response interceptor returns. A resend
\* made by retryRequest is a request on the same axios instance, so its promise
\* is again what the response interceptor returns for it: the chains nest, and
\* `stack` holds, innermost last, the retryRequest calls waiting on a resend
\* with `.catch(() => this.retryRequest(response, retryCount - 1))`.

\* A faulty variant of Fulfil: the response of a resend settles the innermost chain only,
\* and the chain around it goes on to its next resend.
FulfilInnermostOnly(stk, value) ==
  IF Len(stk) <= 1
    THEN [phase |-> "fulfilled", stack |-> <<>>, result |-> value]
    ELSE [phase |-> "delay", stack |-> SubSeq(stk, 1, Len(stk) - 1), result |-> "none"]

\* A fulfilled resend fulfils resolve(...) of every enclosing chain.
Fulfil(stk, value) == [phase |-> "fulfilled", stack |-> <<>>, result |-> value]

RECURSIVE retryRequest(_, _, _)
RECURSIVE Reject(_, _)

\* retryRequest(response, retryCount), called with the enclosing chains stk.
retryRequest(stk, response, retryCount) ==
  IF retryCount <= 0
    THEN Reject(stk, "Maximum Retry")
    ELSE [phase |-> "delay",
          stack |-> Append(stk, [count |-> retryCount, response |-> response]),
          result |-> "none"]

\* A rejection reaching the chains stk: the innermost one catches it and calls
\* retryRequest(response, retryCount - 1); with no chain the caller is rejected.
Reject(stk, err) ==
  IF stk = <<>>
    THEN [phase |-> "rejected", stack |-> <<>>, result |-> err]
    ELSE LET top == stk[Len(stk)]
             rest == SubSeq(stk, 1, Len(stk) - 1)
         IN retryRequest(rest, top.response, top.count - 1)

Settle(r, o) ==
  /\ phase' = [phase EXCEPT ![r] = o.phase]
  /\ stack' = [stack EXCEPT ![r] = o.stack]
  /\ result' = [result EXCEPT ![r] = o.result]

\* ------------------------------------------------ status classifiers
\* The statuses a caller can pass to the classifiers: undefined or a number.
StatusCodes == {Undefined} \cup {Some(n) : n \in (0 - MaxStatus)..MaxStatus}

\* No caller of the classifiers outside the interceptors.
InitNoClassify ==
  /\ statusCode = Undefined
  /\ fromServer = Undefined
  /\ unexpected = Undefined

\* A caller holding some status, before it classifies it.
InitClassify ==
  /\ statusCode \in StatusCodes
  /\ fromServer = Undefined
  /\ unexpected = Undefined

\* The caller asks isErrorFromServer(statusCode).
CallIsErrorFromServer ==
  /\ isUndefined(fromServer)
  /\ fromServer' = Some(isErrorFromServer(statusCode))
  /\ UNCHANGED <<statusCode, unexpected, stdVars, adminVars>>

\* The caller asks isUnexpectedError(statusCode).
CallIsUnexpectedError ==
  /\ isUndefined(unexpected)
  /\ unexpected' = Some(isUnexpectedError(statusCode))
  /\ UNCHANGED <<statusCode, fromServer, stdVars, adminVars>>

\* ------------------------------------------------ standard client
\* The token a request interceptor handler writes, per slot of
\* interceptors.request.handlers; an ejected slot is undefined (null).
\* The handlers run in reverse order of registration, so the value the
\* earliest live handler writes is the one the request is sent with.
Stamp(hs, header) ==
  LET live == {i \in 1..Len(hs) : ~isUndefined(hs[i])}
  IN IF live = {} THEN header
     ELSE hs[CHOOSE i \in live : \A j \in live : i <= j]

\* setAuthRequestInterceptor(accessToken): with an id, clear() drops every
\* handler; use() appends one and returns its index.
setAuthRequestInterceptor(hs, id, accessToken) ==
  LET cleared == IF isUndefined(id) THEN hs ELSE <<>>
  IN [handlers |-> Append(cleared, Some(accessToken)), id |-> Some(Len(cleared))]

InitStandard ==
  /\ authRequestInterceptorId = Undefined
  /\ handlers = <<>>
  /\ authorization = [r \in Req |-> Undefined]
  /\ issued = 0
  /\ replayed = <<>>
  /\ enqueued = <<>>
  /\ removeCalls = 0
  /\ phase = [r \in Req |-> "idle"]
  /\ stack = [r \in Req |-> <<>>]
  /\ received = [r \in Req |-> <<>>]
  /\ resends = [r \in Req |-> 0]
  /\ result = [r \in Req |-> "none"]
  /\ failures = 0
  /\ isApiRequestAuthLocked = FALSE
  /\ apiRequestMicrotaskQueueItem = <<>>
  /\ effects = <<>>
  /\ refreshFailed = 0
  /\ pageAlive = TRUE

\* The caller issues request r: axiosInstance.request(config). Requests are
\* interchangeable, so they are issued in index order.
Call(r) ==
  /\ pageAlive
  /\ phase[r] = "idle"
  /\ IF r = 1 THEN TRUE ELSE phase[r - 1] # "idle"
  /\ phase' = [phase EXCEPT ![r] = "inflight"]
  /\ authorization' = [authorization EXCEPT ![r] = Stamp(handlers, @)]
  /\ UNCHANGED <<stack, received, resends, result, failures, isApiRequestAuthLocked,
                 apiRequestMicrotaskQueueItem, effects, refreshFailed, pageAlive>>
  /\ UNCHANGED <<authRequestInterceptorId, handlers, issued, replayed, enqueued,
                 removeCalls>>
  /\ UNCHANGED <<adminVars, classifyVars>>

\* A 2xx response: onFulfilled returns it.
onFulfilled(r) ==
  /\ pageAlive
  /\ phase[r] = "inflight"
  /\ received' = [received EXCEPT ![r] = Append(@, 200)]
  /\ Settle(r, Fulfil(stack[r], "response"))
  /\ UNCHANGED <<resends, failures, isApiRequestAuthLocked,
                 apiRequestMicrotaskQueueItem, effects, refreshFailed, pageAlive,
                 tokenVars>>
  /\ UNCHANGED <<adminVars, classifyVars>>

\* What onRejected returns for an error.
onRejectedOutcome(stk, error) ==
  IF isErrorFromServer(error.status)
    THEN retryRequest(stk, error.response, DEFAULT_RETRY_COUNT)
    ELSE Reject(stk, "error")

\* The basic response interceptor on an error response.
onRejected(r, error) ==
  /\ pageAlive
  /\ phase[r] = "inflight"
  /\ failures < MaxFailures
  /\ failures' = failures + 1
  /\ received' = [received EXCEPT ![r] = Append(@, StatusOf(error))]
  /\ Settle(r, onRejectedOutcome(stack[r], error))
  /\ UNCHANGED <<resends, isApiRequestAuthLocked, apiRequestMicrotaskQueueItem,
                 effects, refreshFailed, pageAlive, tokenVars>>
  /\ UNCHANGED <<adminVars, classifyVars>>

\* The setTimeout callback of retryRequest: without a response (or config) the
\* chain rejects, otherwise the request is sent again.
RetryTimeout(r) ==
  /\ pageAlive
  /\ phase[r] = "delay"
  /\ LET top == stack[r][Len(stack[r])]
         rest == SubSeq(stack[r], 1, Len(stack[r]) - 1)
     IN IF ~top.response
          THEN /\ Settle(r, Reject(rest, "No response config"))
               /\ UNCHANGED <<resends, authorization>>
          ELSE /\ phase' = [phase EXCEPT ![r] = "inflight"]
               /\ resends' = [resends EXCEPT ![r] = @ + 1]
               /\ authorization' = [authorization EXCEPT ![r] = Stamp(handlers, @)]
               /\ UNCHANGED <<stack, result>>
  /\ UNCHANGED <<received, failures, isApiRequestAuthLocked,
                 apiRequestMicrotaskQueueItem, effects, refreshFailed, pageAlive>>
  /\ UNCHANGED <<authRequestInterceptorId, handlers, issued, replayed, enqueued,
                 removeCalls>>
  /\ UNCHANGED <<adminVars, classifyVars>>


\* ------------------------------------------------ authenticated client
\* The requests whose token-refresh request (await axios(...)) is outstanding.
Refreshing == {r \in Req : phase[r] = "refresh"}

\* The branch onAuthReject takes for an error.
onAuthRejectBranch(error) ==
  IF isErrorFromRequest(error) THEN "reject"
  ELSE IF isErrorFromServer(error.status) THEN "retry"
  ELSE IF isUnexpectedError(error.status) THEN "reject"
  ELSE IF error.config /\ error.status = Some(UN_AUTHORIZED) THEN "refresh"
  ELSE "undefined"

\* The auth lock when the 401 branch returns or suspends: a locked client
\* returns the queued promise from inside try, so finally releases the lock;
\* an unlocked one takes the lock and awaits the refresh request.
LockAfter401(locked) == IF locked THEN FALSE ELSE TRUE

\* The auth response interceptor on an error response, up to its await.
onAuthReject(r, error) ==
  /\ pageAlive
  /\ phase[r] = "inflight"
  /\ failures' = failures + 1
  /\ received' = [received EXCEPT ![r] = Append(@, StatusOf(error))]
  /\ LET branch == onAuthRejectBranch(error)
     IN CASE branch = "reject" ->
               /\ Settle(r, Reject(stack[r], "error"))
               /\ UNCHANGED <<isApiRequestAuthLocked, apiRequestMicrotaskQueueItem>>
          [] branch = "retry" ->
               /\ Settle(r, retryRequest(stack[r], error.response, DEFAULT_RETRY_COUNT))
               /\ UNCHANGED <<isApiRequestAuthLocked, apiRequestMicrotaskQueueItem>>
          [] branch = "refresh" ->
               /\ phase' = [phase EXCEPT ![r] =
                              IF isApiRequestAuthLocked THEN "queued" ELSE "refresh"]
               /\ apiRequestMicrotaskQueueItem' =
                    IF isApiRequestAuthLocked
                      THEN Append(apiRequestMicrotaskQueueItem, r)
                      ELSE apiRequestMicrotaskQueueItem
               /\ isApiRequestAuthLocked' = LockAfter401(isApiRequestAuthLocked)
               /\ UNCHANGED <<stack, result>>
          [] OTHER ->
               /\ Settle(r, Fulfil(stack[r], "undefined"))
               /\ UNCHANGED <<isApiRequestAuthLocked, apiRequestMicrotaskQueueItem>>
  /\ enqueued' = enqueued \o SubSeq(apiRequestMicrotaskQueueItem',
                                     Len(apiRequestMicrotaskQueueItem) + 1,
                                     Len(apiRequestMicrotaskQueueItem'))
  /\ UNCHANGED <<resends, effects, refreshFailed, pageAlive>>
  /\ UNCHANGED <<authRequestInterceptorId, handlers, authorization, issued, replayed,
                 removeCalls>>
  /\ UNCHANGED <<adminVars, classifyVars>>

\* A faulty variant of ReplayOrder: the last request queued is sent first.
RECURSIVE ReplayOrderReversed(_)
ReplayOrderReversed(queue) ==
  IF queue = <<>> THEN <<>>
  ELSE Append(ReplayOrderReversed(Tail(queue)), Head(queue))

\* The order in which forEach sends the queued requests again.
ReplayOrder(queue) == queue

\* The queue once a refresh response with data has been handled: every item
\* is replayed (forEach) and the queue is reset.
QueueAfterRefresh(queue) == <<>>

\* The refresh request of r is answered. With data, every queued request and
\* then r are sent again; without, the handler falls through and returns
\* undefined with the queue as it is. finally releases the lock.
onRefreshFulfilled(r, data) ==
  /\ pageAlive
  /\ phase[r] = "refresh"
  /\ IF data
       THEN LET accessToken == issued + 1
                queue == apiRequestMicrotaskQueueItem
                armed == setAuthRequestInterceptor(handlers, authRequestInterceptorId,
                                                   accessToken)
            IN /\ phase' = [q \in Req |->
                    IF q = r \/ (\E i \in 1..Len(queue) : queue[i] = q)
                      THEN "inflight" ELSE phase[q]]
               \* the queued requests are sent through the handlers of before
               \* setAuthRequestInterceptor(accessToken), r through those of after
               /\ authorization' = [q \in Req |->
                    IF q = r THEN Stamp(armed.handlers, Some(accessToken))
                    ELSE IF \E i \in 1..Len(queue) : queue[i] = q
                      THEN Stamp(handlers, authorization[q])
                    ELSE authorization[q]]
               /\ replayed' = replayed \o ReplayOrder(queue)
               /\ apiRequestMicrotaskQueueItem' = QueueAfterRefresh(queue)
               /\ handlers' = armed.handlers
               /\ authRequestInterceptorId' = armed.id
               /\ issued' = accessToken
               /\ UNCHANGED <<stack, result>>
       ELSE /\ Settle(r, Fulfil(stack[r], "undefined"))
            /\ UNCHANGED <<apiRequestMicrotaskQueueItem, authorization, replayed,
                           handlers, authRequestInterceptorId, issued>>
  /\ isApiRequestAuthLocked' = FALSE
  /\ UNCHANGED <<received, resends, failures, effects, refreshFailed, pageAlive,
                 enqueued, removeCalls>>
  /\ UNCHANGED <<adminVars, classifyVars>>

\* A faulty variant of ForcedLogout: the logout runs once more for every queued request.
RECURSIVE ForcedLogoutPerItem(_)
ForcedLogoutPerItem(queue) ==
  IF queue = <<>>
    THEN <<"removeTokenFromCookie", "reload">>
    ELSE <<"removeTokenFromCookie", "reload">> \o ForcedLogoutPerItem(Tail(queue))

\* The side effects of the catch block, whatever the queue holds.
ForcedLogout(queue) == <<"removeTokenFromCookie", "reload">>

\* The refresh request of r is rejected: catch logs out, finally releases the
\* lock, and the handler returns undefined. The queue is not touched.
onRefreshRejected(r) ==
  /\ pageAlive
  /\ phase[r] = "refresh"
  /\ effects' = effects \o ForcedLogout(apiRequestMicrotaskQueueItem)
  /\ refreshFailed' = refreshFailed + 1
  /\ Settle(r, Fulfil(stack[r], "undefined"))
  /\ isApiRequestAuthLocked' = FALSE
  /\ UNCHANGED <<received, resends, failures, apiRequestMicrotaskQueueItem, pageAlive,
                 tokenVars>>
  /\ UNCHANGED <<adminVars, classifyVars>>

ReloadRequested == \E i \in 1..Len(effects) : effects[i] = "reload"

\* window.location.reload() replaces the page some time after it was called:
\* until then the old page still handles events.
Unload ==
  /\ pageAlive
  /\ ReloadRequested
  /\ pageAlive' = FALSE
  /\ UNCHANGED <<phase, stack, received, resends, result, failures,
                 isApiRequestAuthLocked, apiRequestMicrotaskQueueItem, effects,
                 refreshFailed, tokenVars>>
  /\ UNCHANGED <<adminVars, classifyVars>>

\* The token the application holds after sign-in.
SignInToken == 0

\* The application calls authAxios.setAuthRequestInterceptor(accessToken) with
\* the token of its sign-in.
SetAuthRequestInterceptor ==
  /\ pageAlive
  /\ LET armed == setAuthRequestInterceptor(handlers, authRequestInterceptorId,
                                            SignInToken)
     IN /\ handlers' = armed.handlers
        /\ authRequestInterceptorId' = armed.id
  /\ UNCHANGED <<phase, stack, received, resends, result, failures,
                 isApiRequestAuthLocked, apiRequestMicrotaskQueueItem, effects,
                 refreshFailed, pageAlive>>
  /\ UNCHANGED <<authorization, issued, replayed, enqueued, removeCalls>>
  /\ UNCHANGED <<adminVars, classifyVars>>

\* A faulty variant of removeAuthRequestInterceptor: the check of the id is
\* missing, so every call ejects and clears the token.
removeAuthRequestInterceptorUnguarded(hs, id) ==
  [handlers |-> [i \in 1..Len(hs) |->
                   IF ~isUndefined(id) /\ i = id[1] + 1 THEN Undefined ELSE hs[i]],
   id |-> Undefined,
   effects |-> <<"eject", "removeTokenFromCookie">>]

\* removeAuthRequestInterceptor(): nothing without an id; with one, eject(id)
\* empties the handler's slot, the id is forgotten and the token is cleared.
removeAuthRequestInterceptor(hs, id) ==
  IF isUndefined(id)
    THEN [handlers |-> hs, id |-> id, effects |-> <<>>]
    ELSE [handlers |-> [i \in 1..Len(hs) |->
                          IF i = id[1] + 1 THEN Undefined ELSE hs[i]],
          id |-> Undefined,
          effects |-> <<"eject", "removeTokenFromCookie">>]

\* The application calls authAxios.removeAuthRequestInterceptor().
RemoveAuthRequestInterceptor ==
  /\ pageAlive
  /\ removeCalls < MaxRemoveCalls
  /\ removeCalls' = removeCalls + 1
  /\ LET removed == removeAuthRequestInterceptor(handlers, authRequestInterceptorId)
     IN /\ handlers' = removed.handlers
        /\ authRequestInterceptorId' = removed.id
        /\ effects' = effects \o removed.effects
  /\ UNCHANGED <<phase, stack, received, resends, result, failures,
                 isApiRequestAuthLocked, apiRequestMicrotaskQueueItem,
                 refreshFailed, pageAlive>>
  /\ UNCHANGED <<authorization, issued, replayed, enqueued>>
  /\ UNCHANGED <<adminVars, classifyVars>>


\* ------------------------------------------------ administrative client
SIGNIN == "/signin"
Paths == {SIGNIN, "/orders"}
redirectTime == 5000

verifySigninConfig(url) == url = SIGNIN

\* A faulty variant of requestInterceptorPasses: the redirect state is not consulted.
requestInterceptorPassesAll(redirecting, url) == TRUE

\* The request interceptor: whether the config goes on to the transport.
requestInterceptorPasses(redirecting, url) ==
  IF redirecting THEN verifySigninConfig(url) ELSE TRUE

\* A faulty variant of ClearTimeout: the previous timer is not cleared.
ClearTimeoutMissing(pending, handle) == pending

\* clearTimeout(handle) on the pending timers.
ClearTimeout(pending, handle) == {t \in pending : Some(t.id) # handle}

\* A faulty variant of adminRejectedBranch: a 401 away from the sign-in page reschedules
\* the redirect whether or not the client is already redirecting.
adminRejectedBranchAlwaysRedirect(error, path, redirecting) ==
  IF ~error.response \/ isUndefined(error.status) \/ error.status[1] = 0 THEN "no status"
  ELSE IF isErrorFromRequest(error) THEN "request"
  ELSE IF isErrorFromServer(error.status) THEN "server"
  ELSE IF isUnexpectedError(error.status) THEN "unexpected"
  ELSE IF path = SIGNIN THEN "signin page"
  ELSE "redirect"

\* A faulty variant of adminRejectedBranch: the check of the sign-in page is
\* missing, so a 401 received there goes on to the redirect.
adminRejectedBranchNoSigninCheck(error, path, redirecting) ==
  IF ~error.response \/ isUndefined(error.status) \/ error.status[1] = 0 THEN "no status"
  ELSE IF isErrorFromRequest(error) THEN "request"
  ELSE IF isErrorFromServer(error.status) THEN "server"
  ELSE IF isUnexpectedError(error.status) THEN "unexpected"
  ELSE IF ~redirecting THEN "redirect"
  ELSE "redirecting"

\* The branch the response error handler takes.
adminRejectedBranch(error, path, redirecting) ==
  IF ~error.response \/ isUndefined(error.status) \/ error.status[1] = 0 THEN "no status"
  ELSE IF isErrorFromRequest(error) THEN "request"
  ELSE IF isErrorFromServer(error.status) THEN "server"
  ELSE IF isUnexpectedError(error.status) THEN "unexpected"
  ELSE IF path = SIGNIN THEN "signin page"
  ELSE IF ~redirecting THEN "redirect"
  ELSE "redirecting"

\* A faulty variant of adminRejectedSettles: the sign-in page branch returns the error
\* instead of rejecting with it.
adminRejectedSettlesSigninReturns(branch) ==
  IF branch = "signin page" THEN "fulfilled" ELSE "rejected"

\* How the handler settles the promise on each branch: promiseReject(error)
\* on the first five, Promise.reject(error) at the end.
adminRejectedSettles(branch) == "rejected"

\* A message is a pair <<text, call>>: the call is 0 for the fixed texts, and
\* the registering call for the texts a caller passes in its option.
Msg(text, a) == <<text, a>>
NoMessage == [successMessage |-> Undefined, errorMessage |-> Undefined]
WithMessages(a) == [successMessage |-> Some(Msg("successMessage", a)),
                    errorMessage |-> Some(Msg("errorMessage", a))]

\* apiUtils.executeDispatchEvent(type, message), as generateSuccessMessage and
\* generateErrorMessage call it.
generateSuccessMessage(message) == [type |-> "success", message |-> message]
generateErrorMessage(message) == [type |-> "error", message |-> message]

\* What the response success handler emits.
fulfilledNotes(option) ==
  IF isUndefined(option.successMessage) THEN <<>>
  ELSE <<generateSuccessMessage(option.successMessage[1])>>

\* What the response error handler emits on each branch: nothing before the
\* status check, then the registered error message, then the branch's text.
rejectedNotes(branch, option) ==
  IF branch = "no status" THEN <<>>
  ELSE (IF isUndefined(option.errorMessage) THEN <<>>
        ELSE <<generateErrorMessage(option.errorMessage[1])>>)
       \o (CASE branch = "request" -> <<generateErrorMessage(Msg("Request Error", 0))>>
              [] branch = "server" -> <<generateErrorMessage(Msg("Internal Server Error", 0))>>
              [] branch = "unexpected" -> <<generateErrorMessage(Msg("error.message", 0))>>
              [] branch = "redirect" -> <<generateErrorMessage(Msg("redirect countdown", 0))>>
              [] OTHER -> <<>>)

InitAdmin(flag, path) ==
  /\ sessionUnauthorized = flag
  /\ isRedirectingBy401Unauthorized = flag
  /\ redirectTimeout = Undefined
  /\ timers = {}
  /\ timerSeq = 0
  /\ cancelled = 0
  /\ pathname = path
  /\ navigating = FALSE
  /\ adminPhase = [a \in AdminReq |-> "idle"]
  /\ adminUrl = [a \in AdminReq |-> SIGNIN]
  /\ adminSent = [a \in AdminReq |-> FALSE]
  /\ adminFlagAtCall = [a \in AdminReq |-> FALSE]
  /\ adminStatus = [a \in AdminReq |-> 0]
  /\ adminBranch = [a \in AdminReq |-> "none"]
  /\ messageOption = NoMessage
  /\ adminOption = [a \in AdminReq |-> NoMessage]
  /\ adminNotes = [a \in AdminReq |-> <<>>]

\* request(method, url, option): setMessageOption stores the call's messages
\* in the one field of the client, then the request interceptor passes the
\* config on or rejects; a rejection reaches the response error handler as a
\* string, which has no status and is rejected again.
AdminCall(a, url, option) ==
  /\ adminPhase[a] = "idle"
  /\ messageOption' = option
  /\ adminOption' = [adminOption EXCEPT ![a] = option]
  /\ IF a = 1 THEN TRUE ELSE adminPhase[a - 1] # "idle"
  /\ adminUrl' = [adminUrl EXCEPT ![a] = url]
  /\ adminFlagAtCall' = [adminFlagAtCall EXCEPT ![a] = isRedirectingBy401Unauthorized]
  /\ LET passes == requestInterceptorPasses(isRedirectingBy401Unauthorized, url)
     IN /\ adminSent' = [adminSent EXCEPT ![a] = passes]
        /\ adminPhase' = [adminPhase EXCEPT ![a] = IF passes THEN "inflight" ELSE "rejected"]
  /\ UNCHANGED <<isRedirectingBy401Unauthorized, sessionUnauthorized, redirectTimeout,
                 timers, timerSeq, cancelled, pathname, navigating, adminStatus,
                 adminBranch, adminNotes>>
  /\ UNCHANGED <<stdVars, classifyVars>>

\* The response success handler.
AdminFulfilled(a) ==
  /\ adminPhase[a] = "inflight"
  /\ isRedirectingBy401Unauthorized' = FALSE
  /\ sessionUnauthorized' = FALSE
  /\ adminPhase' = [adminPhase EXCEPT ![a] = "fulfilled"]
  /\ adminStatus' = [adminStatus EXCEPT ![a] = 200]
  /\ adminNotes' = [adminNotes EXCEPT ![a] = fulfilledNotes(messageOption)]
  /\ UNCHANGED <<redirectTimeout, timers, timerSeq, cancelled, pathname, navigating,
                 adminUrl, adminSent, adminFlagAtCall, adminBranch, messageOption,
                 adminOption>>
  /\ UNCHANGED <<stdVars, classifyVars>>

\* The response error handler.
AdminRejected(a, error) ==
  /\ adminPhase[a] = "inflight"
  /\ LET branch == adminRejectedBranch(error, pathname, isRedirectingBy401Unauthorized)
     IN /\ adminPhase' = [adminPhase EXCEPT ![a] = adminRejectedSettles(branch)]
        /\ adminStatus' = [adminStatus EXCEPT ![a] = StatusOf(error)]
        /\ adminBranch' = [adminBranch EXCEPT ![a] = branch]
        /\ adminNotes' = [adminNotes EXCEPT ![a] = rejectedNotes(branch, messageOption)]
        /\ CASE branch = "signin page" ->
                  /\ sessionUnauthorized' = TRUE
                  /\ UNCHANGED <<isRedirectingBy401Unauthorized, redirectTimeout,
                                 timers, timerSeq, cancelled>>
             [] branch = "redirect" ->
                  /\ timerSeq < MaxTimers
                  /\ LET cleared == ClearTimeout(timers, redirectTimeout)
                     IN /\ cancelled' = cancelled + Cardinality(timers \ cleared)
                        /\ timers' = cleared \cup
                                       {[id |-> timerSeq + 1, delay |-> redirectTime]}
                  /\ sessionUnauthorized' = TRUE
                  /\ isRedirectingBy401Unauthorized' = TRUE
                  /\ timerSeq' = timerSeq + 1
                  /\ redirectTimeout' = Some(timerSeq + 1)
             [] OTHER ->
                  UNCHANGED <<isRedirectingBy401Unauthorized, sessionUnauthorized,
                              redirectTimeout, timers, timerSeq, cancelled>>
  /\ UNCHANGED <<pathname, navigating, adminUrl, adminSent, adminFlagAtCall,
                 messageOption, adminOption>>
  /\ UNCHANGED <<stdVars, classifyVars>>

\* The redirect timer fires: on the sign-in page it only clears the handle,
\* elsewhere it assigns window.location.href.
RedirectTimerFires(t) ==
  /\ t \in timers
  /\ IF pathname = SIGNIN
       THEN /\ timers' = ClearTimeout(timers \ {t}, redirectTimeout)
            /\ UNCHANGED navigating
       ELSE /\ timers' = timers \ {t}
            /\ navigating' = TRUE
  /\ UNCHANGED <<isRedirectingBy401Unauthorized, sessionUnauthorized, redirectTimeout,
                 timerSeq, cancelled, pathname, adminPhase, adminUrl, adminSent,
                 adminFlagAtCall, adminStatus, adminBranch, messageOption,
                 adminOption, adminNotes>>
  /\ UNCHANGED <<stdVars, classifyVars>>

\* The application's router changes the path without loading a page.
RouteChange(p) ==
  /\ ~navigating
  /\ p # pathname
  /\ pathname' = p
  /\ UNCHANGED <<isRedirectingBy401Unauthorized, sessionUnauthorized, redirectTimeout,
                 timers, timerSeq, cancelled, navigating, adminPhase, adminUrl,
                 adminSent, adminFlagAtCall, adminStatus, adminBranch, messageOption,
                 adminOption, adminNotes>>
  /\ UNCHANGED <<stdVars, classifyVars>>

\* A page is loaded (the pending navigation to sign-in, or a reload by the
\* user): the old page's timers and calls are gone and the AdminStore
\* constructor reads the flag from sessionStorage.
PageLoad(p) ==
  /\ navigating => p = SIGNIN
  /\ ~navigating => p = pathname
  /\ isRedirectingBy401Unauthorized' = sessionUnauthorized
  /\ redirectTimeout' = Undefined
  /\ timers' = {}
  /\ timerSeq' = 0
  /\ cancelled' = 0
  /\ pathname' = p
  /\ navigating' = FALSE
  /\ adminPhase' = [a \in AdminReq |-> "idle"]
  /\ adminUrl' = [a \in AdminReq |-> SIGNIN]
  /\ adminSent' = [a \in AdminReq |-> FALSE]
  /\ adminFlagAtCall' = [a \in AdminReq |-> FALSE]
  /\ adminStatus' = [a \in AdminReq |-> 0]
  /\ adminBranch' = [a \in AdminReq |-> "none"]
  /\ messageOption' = NoMessage
  /\ adminOption' = [a \in AdminReq |-> NoMessage]
  /\ adminNotes' = [a \in AdminReq |-> <<>>]
  /\ UNCHANGED sessionUnauthorized
  /\ UNCHANGED <<stdVars, classifyVars>>

\* ------------------------------------------------ specifications
NextBasic ==
  \/ \E r \in Callers : Call(r)
  \/ \E r \in Callers : onFulfilled(r)
  \/ \E r \in Callers, e \in TransportErrors : onRejected(r, e)
  \/ \E r \in Callers : RetryTimeout(r)

NextAuth ==
  \/ \E r \in Callers : Call(r)
  \/ \E r \in Callers : onFulfilled(r)
  \/ \E r \in Callers, e \in TransportErrors :
       failures < MaxAuthFailures /\ onAuthReject(r, e)
  \/ \E r \in Callers : RetryTimeout(r)
  \/ \E r \in Callers, data \in BOOLEAN : onRefreshFulfilled(r, data)
  \/ \E r \in Callers : onRefreshRejected(r)
  \/ Unload

NextAdmin ==
  \/ \E a \in AdminReq, url \in Paths : AdminCall(a, url, NoMessage)
  \/ \E a \in AdminReq : AdminFulfilled(a)
  \/ \E a \in AdminReq, e \in TransportErrors : AdminRejected(a, e)
  \/ \E t \in timers : RedirectTimerFires(t)
  \/ \E p \in Paths : RouteChange(p)
  \/ \E p \in Paths : PageLoad(p)

\* The administrative client with callers that pass messages in the option of
\* their calls.
NextAdminMsg ==
  \/ \E a \in MsgReq, url \in Paths : \E option \in {NoMessage, WithMessages(a)} :
       AdminCall(a, url, option)
  \/ \E a \in MsgReq : AdminFulfilled(a)
  \/ \E a \in MsgReq, e \in TransportErrors : AdminRejected(a, e)
  \/ \E t \in timers : RedirectTimerFires(t)
  \/ \E p \in Paths : RouteChange(p)
  \/ \E p \in Paths : PageLoad(p)

\* The standard client with the auth interceptor, signed in by the application.
NextAuthSignedIn ==
  \/ SetAuthRequestInterceptor
  \/ \E r \in Callers : Call(r)
  \/ \E r \in Callers : onFulfilled(r)
  \/ \E r \in Callers, e \in TransportErrors :
       failures < MaxAuthFailures /\ onAuthReject(r, e)
  \/ \E r \in Callers : RetryTimeout(r)
  \/ \E r \in Callers, data \in BOOLEAN : onRefreshFulfilled(r, data)
  \/ \E r \in Callers : onRefreshRejected(r)
  \/ Unload

\* The standard client with the auth interceptor, every request answered 401
\* and every refresh request answered: the requests that queue behind a
\* refresh.
NextAuthQueue ==
  \/ \E r \in Req : Call(r)
  \/ \E r \in Req :
       failures < MaxQueueFailures /\ onAuthReject(r, HttpError(UN_AUTHORIZED))
  \/ \E r \in Req, data \in BOOLEAN : onRefreshFulfilled(r, data)

\* The application arming and removing the request interceptor around the
\* requests it issues.
NextInterceptor ==
  \/ SetAuthRequestInterceptor
  \/ RemoveAuthRequestInterceptor
  \/ \E r \in Callers : Call(r)
  \/ \E r \in Callers : onFulfilled(r)

\* The two classifiers of BaseAxiosService applied to one status.
NextClassify ==
  \/ CallIsErrorFromServer
  \/ CallIsUnexpectedError

InitStd == InitStandard /\ InitAdmin(FALSE, "/orders") /\ InitNoClassify
InitCls == InitStandard /\ InitAdmin(FALSE, "/orders") /\ InitClassify
InitAdm ==
  /\ InitStandard
  /\ \E flag \in BOOLEAN, path \in Paths : InitAdmin(flag, path)
  /\ InitNoClassify

\* The standard client with initBasicResponseInterceptor.
SpecBasic == InitStd /\ [][NextBasic]_vars
\* The standard client with initAuthResponseInterceptor.
SpecAuth == InitStd /\ [][NextAuth]_vars
\* The same, with every task that is ready eventually run by the event loop.
FairSpecAuth == SpecAuth /\ WF_vars(NextAuth)
\* The same client, the application installing its sign-in token.
SpecAuthSignedIn == InitStd /\ [][NextAuthSignedIn]_vars
\* The same client, answered 401 only.
SpecAuthQueue == InitStd /\ [][NextAuthQueue]_vars
\* The request interceptor armed and removed by the application.
SpecInterceptor == InitStd /\ [][NextInterceptor]_vars
\* The administrative client.
SpecAdmin == InitAdm /\ [][NextAdmin]_vars
\* The administrative client, its calls registering messages.
SpecAdminMsg == InitAdm /\ [][NextAdminMsg]_vars
\* The status classifiers, applied to every status of the domain.
SpecClassify == InitCls /\ [][NextClassify]_vars


\* ================================================ claims
Last(seq) == seq[Len(seq)]
Has(seq, x) == \E i \in 1..Len(seq) : seq[i] = x
Count(seq, x) == Cardinality({i \in 1..Len(seq) : seq[i] = x})

\* C1: on one authenticated client at most one token-refresh request is
\* outstanding at any time, whatever the number and interleaving of 401s.
C1_AtMostOneRefreshOutstanding == Cardinality(Refreshing) <= 1

\* The initial send and every resend of r so far failed with an HTTP status
\* that is server-originated.
AllServerErrors(r) ==
  /\ received[r] # <<>>
  /\ \A i \in 1..Len(received[r]) : received[r][i] >= SERVER_ERROR

\* C2: a request whose initial send and every resend fail with a server error
\* is resent exactly 3 times and then rejected with the maximum-retry error;
\* a 4th resend never happens.
C2_ThreeResendsThenMaximumRetry ==
  \A r \in Req :
    AllServerErrors(r) =>
      /\ resends[r] <= DEFAULT_RETRY_COUNT
      /\ Len(received[r]) = DEFAULT_RETRY_COUNT + 1 =>
           phase[r] = "rejected" /\ result[r] = "Maximum Retry"

\* The caller's promise of r is settled by the response or the error of a send
\* of r.
SettledByReplay(r) ==
  /\ phase[r] \in {"fulfilled", "rejected"}
  /\ result[r] # "undefined"

\* C3: every request that received a 401 on the authenticated client
\* eventually has its caller's promise settled by the outcome of its own
\* replay, whether the refresh succeeds or fails.
C3_Every401EventuallySettled ==
  \A r \in Req : Has(received[r], UN_AUTHORIZED) ~> SettledByReplay(r)

\* C4: whenever a token refresh completes (its handler finishes and releases
\* the lock), succeeded or failed, the pending queue is empty afterwards.
C4_QueueEmptyAfterRefresh ==
  [][(\E r \in Req : phase[r] = "refresh" /\ phase'[r] # "refresh")
       => apiRequestMicrotaskQueueItem' = <<>>]_vars

\* C5: every token refresh that fails is followed by exactly one forced
\* logout, clear tokens and then reload, whatever the queue held: the side
\* effects are one such pair per failed refresh, in that order.
C5_OneLogoutPerFailedRefresh ==
  /\ Len(effects) = 2 * refreshFailed
  /\ \A i \in 1..Len(effects) :
       effects[i] = IF i % 2 = 1 THEN "removeTokenFromCookie" ELSE "reload"

\* C5 witness: a refresh failed while a request was queued behind it, and the
\* logout happened once.
C5_Witness ==
  /\ refreshFailed = 1
  /\ Len(apiRequestMicrotaskQueueItem) >= 1
  /\ Count(effects, "reload") = 1

\* Resend number k of r, 1 <= k <= 3, was answered with success.
ResendSucceeded(r) ==
  /\ resends[r] \in 1..DEFAULT_RETRY_COUNT
  /\ Len(received[r]) = resends[r] + 1
  /\ Last(received[r]) = 200

\* C6: when resend k (1 <= k <= 3) of a request succeeds, the caller's promise
\* is fulfilled with that response and the request is never resent again; in
\* particular 500, 500, 500, 200 is fulfilled after exactly 3 resends.
C6_SuccessfulResendResolves ==
  /\ [](\A r \in Req :
          /\ ResendSucceeded(r) => phase[r] = "fulfilled" /\ result[r] = "response"
          /\ received[r] = <<500, 500, 500, 200>> => resends[r] = 3)
  /\ [][\A r \in Req :
          ResendSucceeded(r) =>
            /\ resends'[r] = resends[r]
            /\ received'[r] = received[r]
            /\ phase'[r] = phase[r]]_vars

\* C6 witness: 500, 500, 500 then 200, fulfilled with the response.
C6_Witness ==
  \E r \in Req :
    /\ received[r] = <<500, 500, 500, 200>>
    /\ resends[r] = 3
    /\ phase[r] = "fulfilled"
    /\ result[r] = "response"

\* C7: a call made on the administrative client while the in-memory
\* unauthorized-redirect flag is true is rejected by the request interceptor
\* and never reaches the transport unless its URL is the sign-in endpoint;
\* a call to the sign-in endpoint is sent.
C7_OnlySigninSentWhileRedirecting ==
  \A a \in AdminReq :
    (adminPhase[a] # "idle" /\ adminFlagAtCall[a]) =>
      IF adminUrl[a] = SIGNIN
        THEN adminSent[a]
        ELSE ~adminSent[a] /\ adminPhase[a] = "rejected" /\ adminStatus[a] = 0

\* C7 witness: one call rejected unsent and one sign-in call sent, both made
\* while the flag was true.
C7_Witness ==
  \E a, b \in AdminReq :
    /\ adminFlagAtCall[a] /\ adminUrl[a] # SIGNIN
    /\ adminPhase[a] = "rejected" /\ ~adminSent[a]
    /\ adminFlagAtCall[b] /\ adminUrl[b] = SIGNIN /\ adminSent[b]

\* C8: on the administrative client every response with status 401 rejects
\* the caller's promise, on each of the three 401 paths; none is delivered as
\* a fulfilled result.
C8_Every401Rejects ==
  \A a \in AdminReq :
    /\ adminStatus[a] = UN_AUTHORIZED => adminPhase[a] = "rejected"
    /\ adminBranch[a] \in {"signin page", "redirect", "redirecting"} =>
         adminStatus[a] = UN_AUTHORIZED /\ adminPhase[a] = "rejected"

\* C8 witness: the three 401 paths were taken by three calls, all rejected.
C8_Witness ==
  \E a, b, c \in AdminReq :
    /\ adminBranch[a] = "signin page" /\ adminPhase[a] = "rejected"
    /\ adminBranch[b] = "redirect" /\ adminPhase[b] = "rejected"
    /\ adminBranch[c] = "redirecting" /\ adminPhase[c] = "rejected"

\* C9: at most one redirect timer is pending at any time, and a 401 received
\* while not on the sign-in page and not already redirecting arms exactly one
\* timer, with the 5000 ms delay.
C9_AtMostOneRedirectTimer ==
  /\ [](Cardinality(timers) <= 1)
  /\ [][\A a \in AdminReq :
          (adminPhase[a] = "inflight" /\ adminBranch'[a] = "redirect") =>
            \E t \in timers' :
              /\ t \notin timers
              /\ t.delay = 5000
              /\ timers' = {t}]_vars

\* C9 witness: a second timer was armed on one page, after the first was
\* cancelled, and it is the only one pending.
C9_Witness ==
  /\ timerSeq = 2
  /\ cancelled = 1
  /\ timers = {[id |-> 2, delay |-> 5000]}

\* A 401 is handled away from the sign-in page while a redirect timer is
\* pending (a second 401: only a 401 arms the timer).
Second401(a) ==
  /\ adminPhase[a] = "inflight"
  /\ adminBranch'[a] \in {"redirect", "redirecting"}
  /\ timers # {}

\* C10 as claimed: a second 401 (not on the sign-in page) arriving while the
\* timer of an earlier 401 is pending cancels that timer and arms a new one.
C10_Second401Reschedules ==
  [][\A a \in AdminReq :
       Second401(a) => timers' # {} /\ timers' \cap timers = {}]_vars

\* C10 as amended: such a 401 cancels the pending timer and arms a new one
\* only when the in-memory flag was cleared in between (by a successful
\* response); while the flag is set the pending timer is left as it is and
\* no timer is armed.
C10_Second401ReschedulesUnlessRedirecting ==
  [][\A a \in AdminReq :
       Second401(a) =>
         IF isRedirectingBy401Unauthorized
           THEN timers' = timers /\ redirectTimeout' = redirectTimeout
           ELSE /\ Cardinality(timers') = 1
                /\ timers' \cap timers = {}
                /\ cancelled' = cancelled + 1]_vars

\* C10 witness: after a 401 armed the timer and a success cleared the flag, a
\* second 401 cancelled the pending timer and armed a new one.
C10_Witness ==
  /\ cancelled >= 1
  /\ Cardinality(timers) = 1
  /\ \E a \in AdminReq : adminBranch[a] = "redirect" /\ adminStatus[a] = UN_AUTHORIZED
  /\ \E b \in AdminReq : adminStatus[b] = 200

\* C11: the notification of a call on the administrative client is decided
\* by the message option registered for that same call, also when another
\* call is issued between its send and its response: a call answered
\* successfully emits exactly the success notification of its own option (one
\* notification carrying its success message, or none when it registered no
\* message), never an error notification.
C11_NotificationByOwnOption ==
  \A a \in AdminReq :
    adminPhase[a] = "fulfilled" => adminNotes[a] = fulfilledNotes(adminOption[a])

\* C12: for every status (undefined or any integer) exactly one
\* classification applies: isErrorFromServer is true exactly when the status
\* is undefined or at least 500, the status is Unauthorized exactly when it is
\* 401, isUnexpectedError is true for every other status and only for those;
\* isErrorFromServer and isUnexpectedError are never both true.
C12_ClassificationPartitions ==
  (~isUndefined(fromServer) /\ ~isUndefined(unexpected)) =>
    LET serverOriginated == isUndefined(statusCode) \/ statusCode[1] >= 500
        unauthorized == ~isUndefined(statusCode) /\ statusCode[1] = 401
    IN /\ fromServer[1] = serverOriginated
       /\ unexpected[1] = (~serverOriginated /\ ~unauthorized)
       /\ ~(fromServer[1] /\ unexpected[1])

\* The response error handler of call a handles a 401 while the page is the
\* sign-in page.
SigninPage401(a) ==
  /\ adminPhase[a] = "inflight"
  /\ adminPhase'[a] # "inflight"
  /\ adminStatus'[a] = UN_AUTHORIZED
  /\ pathname = SIGNIN

\* C13: a 401 received on the administrative client while the page is the
\* sign-in page sets the persisted flag and rejects; it arms no redirect timer
\* (and cancels none) and performs no navigation, whatever the state it is
\* received in.
C13_SigninPage401OnlySetsFlag ==
  [][\A a \in AdminReq :
       SigninPage401(a) =>
         /\ sessionUnauthorized'
         /\ adminPhase'[a] = "rejected"
         /\ timers' = timers
         /\ timerSeq' = timerSeq
         /\ redirectTimeout' = redirectTimeout
         /\ cancelled' = cancelled
         /\ navigating' = navigating
         /\ pathname' = pathname]_vars

\* C13 witness: a 401 was rejected on the sign-in page while the redirect
\* timer of an earlier 401 was pending; the timer is still the only one armed.
C13_Witness ==
  /\ pathname = SIGNIN
  /\ sessionUnauthorized
  /\ \E a \in AdminReq : adminBranch[a] = "signin page" /\ adminPhase[a] = "rejected"
  /\ timers # {}
  /\ timerSeq = 1
  /\ ~navigating

\* C14: removeAuthRequestInterceptor called twice in a row leaves the client
\* as one call does. Every call leaves the id null and no handler in the id's
\* slot; a call made with the id already null (as the second of two calls in
\* a row is) ejects nothing, clears no token and changes nothing of the
\* client.
C14_RemoveTwiceIsRemoveOnce ==
  [][removeCalls' = removeCalls + 1 =>
       /\ isUndefined(authRequestInterceptorId')
       /\ isUndefined(authRequestInterceptorId) =>
            /\ handlers' = handlers
            /\ effects' = effects
            /\ authorization' = authorization
            /\ phase' = phase
            /\ result' = result]_vars

\* C14 witness: the interceptor was armed and removeAuthRequestInterceptor
\* called twice: one eject and one cleared token, and a request issued
\* afterwards carries no token.
C14_Witness ==
  /\ removeCalls = 2
  /\ effects = <<"eject", "removeTokenFromCookie">>
  /\ handlers = <<Undefined>>
  /\ isUndefined(authRequestInterceptorId)
  /\ \E r \in Req : phase[r] = "inflight" /\ isUndefined(authorization[r])

\* Request q is sent again by the handler of a refresh response with data,
\* on a client whose request interceptor was armed before.
ReplayedByRefresh(q) ==
  /\ issued' = issued + 1
  /\ ~isUndefined(authRequestInterceptorId)
  /\ phase[q] \in {"queued", "refresh"}
  /\ phase'[q] = "inflight"

\* C15: on a successful refresh the request interceptor is re-armed with the
\* new access token before any queued request is replayed: every request the
\* refresh replays, queued or originating, is sent with the new token, none
\* with the token of before.
C15_ReplaysCarryNewToken ==
  [][\A q \in Req : ReplayedByRefresh(q) => authorization'[q] = Some(issued')]_vars

\* C16: after a successful refresh the queued requests are replayed in the
\* order in which they were enqueued, each exactly once (the replays, followed
\* by what is still queued, are the enqueues in their order), and none before
\* the refresh has completed: requests are replayed only by the step that
\* handles a refresh response with data, which replays the whole queue in
\* order and leaves it empty.
C16_ReplaysInEnqueueOrder ==
  [][/\ replayed' \o apiRequestMicrotaskQueueItem' = enqueued'
     /\ replayed' # replayed =>
          /\ \E r \in Req : phase[r] = "refresh" /\ phase'[r] = "inflight"
          /\ issued' = issued + 1
          /\ replayed' = replayed \o apiRequestMicrotaskQueueItem
          /\ apiRequestMicrotaskQueueItem' = <<>>
          /\ \A i \in 1..Len(apiRequestMicrotaskQueueItem) :
               /\ phase[apiRequestMicrotaskQueueItem[i]] = "queued"
               /\ phase'[apiRequestMicrotaskQueueItem[i]] = "inflight"]_vars

\* C16 witness: two requests were queued, 2 before 4, and one successful
\* refresh replayed them in that order.
C16_Witness ==
  /\ enqueued = <<2, 4>>
  /\ replayed = <<2, 4>>
  /\ apiRequestMicrotaskQueueItem = <<>>
  /\ issued = 1
  /\ phase[2] = "inflight"
  /\ phase[4] = "inflight"

\* The auth response interceptor handles an error response of status s for
\* request r (0 for an error without a response).
AuthErrorHandled(r, s) ==
  /\ phase[r] = "inflight"
  /\ Len(received'[r]) = Len(received[r]) + 1
  /\ Last(received'[r]) = s

\* C17: on the authenticated client a request-originated error (no response)
\* or an unexpected one (status below 500, not 401) rejects the caller's
\* promise with that error, without a resend and without a refresh, the auth
\* lock and the queue left as they are; only a server-originated error leads
\* to a resend and only a 401 starts or joins a refresh.
C17_RequestAndUnexpectedErrorsReject ==
  [][\A r \in Req : \A s \in {0} \cup ErrorStatuses :
       AuthErrorHandled(r, s) =>
         /\ (s = 0 \/ (s < SERVER_ERROR /\ s # UN_AUTHORIZED)) =>
              /\ phase'[r] = "rejected"
              /\ result'[r] = "error"
              /\ resends' = resends
              /\ isApiRequestAuthLocked' = isApiRequestAuthLocked
              /\ apiRequestMicrotaskQueueItem' = apiRequestMicrotaskQueueItem
         /\ phase'[r] = "delay" => s >= SERVER_ERROR
         /\ phase'[r] \in {"refresh", "queued"} => s = UN_AUTHORIZED]_vars

\* C19: the authenticated client's failure handler fulfils a caller's promise
\* only with the response of a successful resend or replay: no promise of a
\* request is fulfilled with an empty value, on no path (refresh request
\* failing, refresh response without data, forced logout).
C19_FulfilledOnlyWithResponse ==
  \A r \in Req : phase[r] = "fulfilled" => result[r] = "response"

\* C18: on the administrative client every failed call whose error is
\* request-originated (no response was received, so no status) emits the
\* "Request Error" notification and rejects.
C18_RequestErrorNotified ==
  \A a \in AdminReq :
    (adminSent[a] /\ adminPhase[a] = "rejected" /\ adminStatus[a] = 0) =>
      Has(adminNotes[a], generateErrorMessage(Msg("Request Error", 0)))

\* C20: on the administrative client, whenever the in-memory flag is set and
\* the page is not the sign-in page (nor being replaced by it), a redirect
\* timer is pending; also right after construction from a persisted flag.
C20_RedirectingHasTimer ==
  (isRedirectingBy401Unauthorized /\ pathname # SIGNIN /\ ~navigating) => timers # {}

====
